---- MODULE Spec2Model ----
(***************************************************************************)
(* Hot-reloading multi-tenant request dispatcher (webserver/app.py).       *)
(*                                                                         *)
(* Strings are sequences of one-character strings, so that prefix tests,   *)
(* splitting on the separator and normalisation are computed as            *)
(* posixpath computes them.  The model follows POSIX path semantics.      *)
(***************************************************************************)
EXTENDS Integers, Sequences, FiniteSets, TLC

\* ------------------------------------------------------------------------
\* Bounds of the model
\* ------------------------------------------------------------------------
NumRequests == 2
MaxMtime == 2
MaxWrites == 2
MaxLoads == 2

\* ------------------------------------------------------------------------
\* Strings
\* ------------------------------------------------------------------------
SEP == "/"
DOT == "."
DOTDOT == <<".", ".">>
PY_EXT == <<".", "p", "y">>

StartsWith(s, p) == Len(s) >= Len(p) /\ SubSeq(s, 1, Len(p)) = p
EndsWith(s, p) == Len(s) >= Len(p) /\ SubSeq(s, Len(s) - Len(p) + 1, Len(s)) = p

RECURSIVE SplitFrom(_, _, _)
SplitFrom(s, i, cur) ==
  IF i > Len(s) THEN <<cur>>
  ELSE IF s[i] = SEP THEN <<cur>> \o SplitFrom(s, i + 1, <<>>)
  ELSE SplitFrom(s, i + 1, Append(cur, s[i]))

\* str.split('/')
Split(s) == SplitFrom(s, 1, <<>>)

RECURSIVE JoinSep(_)
\* '/'.join(comps)
JoinSep(cs) ==
  IF Len(cs) = 0 THEN <<>>
  ELSE IF Len(cs) = 1 THEN cs[1]
  ELSE cs[1] \o <<SEP>> \o JoinSep(Tail(cs))

\* ------------------------------------------------------------------------
\* os.path (posixpath)
\* ------------------------------------------------------------------------
\* os.path.join(a, b)
join(a, b) ==
  IF StartsWith(b, <<SEP>>) THEN b
  ELSE IF Len(a) = 0 \/ EndsWith(a, <<SEP>>) THEN a \o b
  ELSE a \o <<SEP>> \o b

RECURSIVE NormComps(_, _, _)
NormComps(comps, new, initial) ==
  IF Len(comps) = 0 THEN new
  ELSE LET comp == Head(comps) IN
    IF comp = <<>> \/ comp = <<DOT>> THEN NormComps(Tail(comps), new, initial)
    ELSE IF comp # DOTDOT \/ (initial = 0 /\ Len(new) = 0)
              \/ (Len(new) > 0 /\ new[Len(new)] = DOTDOT)
         THEN NormComps(Tail(comps), Append(new, comp), initial)
    ELSE IF Len(new) > 0
         THEN NormComps(Tail(comps), SubSeq(new, 1, Len(new) - 1), initial)
    ELSE NormComps(Tail(comps), new, initial)

\* os.path.normpath(path)
normpath(path) ==
  IF Len(path) = 0 THEN <<DOT>>
  ELSE LET initial == IF StartsWith(path, <<SEP, SEP>>) /\ ~StartsWith(path, <<SEP, SEP, SEP>>)
                      THEN 2
                      ELSE IF StartsWith(path, <<SEP>>) THEN 1 ELSE 0
           body == JoinSep(NormComps(Split(path), <<>>, initial))
           res == (IF initial = 2 THEN <<SEP, SEP>>
                   ELSE IF initial = 1 THEN <<SEP>> ELSE <<>>) \o body
       IN IF Len(res) = 0 THEN <<DOT>> ELSE res

\* os.getcwd(): the server directory, next to the workspace
CWD == <<"/", "s", "/", "x">>

\* os.path.abspath(path)
abspath(path) ==
  IF StartsWith(path, <<SEP>>) THEN normpath(path) ELSE normpath(join(CWD, path))

\* the components of a path that commonpath compares
PathComps(path) == SelectSeq(Split(path), LAMBDA c : c # <<>> /\ c # <<DOT>>)

RECURSIVE CommonPrefix(_, _)
CommonPrefix(s1, s2) ==
  IF Len(s1) = 0 \/ Len(s2) = 0 \/ Head(s1) # Head(s2) THEN <<>>
  ELSE <<Head(s1)>> \o CommonPrefix(Tail(s1), Tail(s2))

\* what commonpath yields where it raises ValueError
VALUE_ERROR == <<"ValueError">>

\* os.path.commonpath([p1, p2]): ValueError if one path is absolute and the
\* other is not
commonpath(p1, p2) ==
  IF StartsWith(p1, <<SEP>>) # StartsWith(p2, <<SEP>>) THEN VALUE_ERROR
  ELSE (IF StartsWith(p1, <<SEP>>) THEN <<SEP>> ELSE <<>>)
       \o JoinSep(CommonPrefix(PathComps(p1), PathComps(p2)))

\* faulty variant: containment tested on the strings, not on the components
EnsureByStringPrefix(root, path) ==
  IF StartsWith(abspath(path), abspath(root)) THEN 0 ELSE 403

\* _ensure_in_dir(root, path): 0 if it returns, 403 if it aborts, 500 if it
\* raises an exception that is no HTTP error
_ensure_in_dir(root, path) ==
  LET root_abs == abspath(root)
      path_abs == abspath(path)
      common == commonpath(root_abs, path_abs)
  IN IF common = VALUE_ERROR THEN 500
     ELSE IF common # root_abs THEN 403 ELSE 0

\* ------------------------------------------------------------------------
\* Names and the file system
\* ------------------------------------------------------------------------
\* WORKSPACE = abspath(BASE_DIR/../workspace)
WORKSPACE == <<"/", "s", "/", "w">>

P_NAME == <<"p">>
Q_NAME == <<"q">>
N_NAME == <<"n">>
BS_NAME == <<"a", "\\", "b">>
M_NAME == <<"m">>
G_NAME == <<"g">>
API == <<"a", "p", "i">>
WEB == <<"w", "e", "b">>
INDEX_HTML == <<"i", "n", "d", "e", "x", ".", "h", "t", "m", "l">>

project_root(project) == join(WORKSPACE, project)

web_root(project) == join(join(WORKSPACE, project), WEB)

api_dir(project) == join(project_root(project), API)

api_file_path(project, module_name) == join(api_dir(project), module_name \o PY_EXT)

\* directories on disk (they do not change while the server runs)
Dirs ==
  { <<SEP>>, <<"/", "s">>, WORKSPACE, CWD, <<"/", "s", "/", "a", "p", "i">>,
    project_root(P_NAME), api_dir(P_NAME), web_root(P_NAME),
    project_root(Q_NAME), api_dir(Q_NAME) }

\* the handler files that exist at some time
HandlerPaths ==
  { api_file_path(P_NAME, M_NAME), api_file_path(Q_NAME, M_NAME),
    <<"/", "s", "/", "a", "p", "i", "/", "m", ".", "p", "y">> }

\* files that are no handlers
StaticPaths ==
  { join(project_root(Q_NAME), INDEX_HTML),
    join(api_dir(P_NAME), <<"_", "h", ".", "p", "y">>),
    join(api_dir(P_NAME), <<".", "h", ".", "p", "y">>),
    join(api_dir(P_NAME), <<"r", ".", "t", "x", "t">>),
    join(web_root(P_NAME), INDEX_HTML),
    <<"/", "s", "/", "k">> }

FilePaths == HandlerPaths \cup StaticPaths

NoPath == <<>>

RECURSIVE Walk(_, _)
\* the kernel's path walk: every directory on the way must exist
Walk(comps, cur) ==
  IF Len(comps) = 0 THEN <<SEP>> \o JoinSep(cur)
  ELSE IF (<<SEP>> \o JoinSep(cur)) \notin Dirs THEN NoPath
  ELSE LET c == Head(comps) IN
    IF c = <<>> \/ c = <<DOT>> THEN Walk(Tail(comps), cur)
    ELSE IF c = DOTDOT
         THEN Walk(Tail(comps), IF Len(cur) = 0 THEN cur ELSE SubSeq(cur, 1, Len(cur) - 1))
    ELSE Walk(Tail(comps), Append(cur, c))

\* the file or directory a path names, NoPath if the walk fails
Resolve(path) ==
  IF StartsWith(path, <<SEP>>) THEN Walk(Split(path), <<>>)
  ELSE Walk(Split(path), PathComps(CWD))

\* os.path.isdir(path)
isdir(path) == Resolve(path) \in Dirs

\* os.path.isfile(path)
isfile(fs, path) == Resolve(path) \in FilePaths /\ fs[Resolve(path)].exists

\* os.listdir(path): the names directly below a directory, that is the last
\* components of the normalised absolute paths whose directory it is
listdir(fs, path) ==
  LET d == Resolve(path)
      basename(x) == LET cs == PathComps(x) IN IF Len(cs) = 0 THEN <<>> ELSE cs[Len(cs)]
      dirname(x) ==
        LET cs == PathComps(x)
        IN IF Len(cs) = 0 THEN <<SEP>> ELSE <<SEP>> \o JoinSep(SubSeq(cs, 1, Len(cs) - 1))
  IN { basename(x) : x \in { y \in (Dirs \ {<<SEP>>}) \cup { f \in FilePaths : fs[f].exists } :
                             dirname(y) = d } }

\* ------------------------------------------------------------------------
\* Handler sources: what a handler file defines once it is executed
\* ------------------------------------------------------------------------
HTTP_METHODS == {"GET", "POST", "PUT", "DELETE", "PATCH", "OPTIONS", "HEAD"}

\* request.method.lower()
Lower(method) ==
  CASE method = "GET" -> "get"
    [] method = "POST" -> "post"
    [] method = "PUT" -> "put"
    [] method = "DELETE" -> "delete"
    [] method = "PATCH" -> "patch"
    [] method = "OPTIONS" -> "options"
    [] method = "HEAD" -> "head"

AttrNames == {"get", "post", "put", "delete", "patch", "options", "head", "handle"}

\* a module attribute: absent, a plain value, a def (with __code__), or a
\* callable object without __code__
Fn(argc, va, behav) == [kind |-> "function", argcount |-> argc, varargs |-> va, behav |-> behav]

\* callable(x)
callable(a) == a.kind \in {"function", "object"}

Attrs(f) ==
  [n \in AttrNames |->
     IF n \in DOMAIN f THEN f[n]
     ELSE [kind |-> "absent", argcount |-> 0, varargs |-> FALSE, behav |-> "none"]]

Source(imp, attrs, hasSup, sup) ==
  [importable |-> imp, attrs |-> attrs, has_supported |-> hasSup, supported |-> sup]

\* example_api_endpoint.py
SrcExample ==
  Source(TRUE, Attrs([handle |-> Fn(1, FALSE, "example")]), TRUE, {"GET", "POST"})

\* verb functions next to a generic handle
SrcVerbs ==
  Source(TRUE, Attrs([get |-> Fn(0, FALSE, "dict_get"), post |-> Fn(1, FALSE, "dict_post"),
                      delete |-> Fn(1, FALSE, "dict_delete"),
                      handle |-> Fn(1, FALSE, "dict_handle")]), TRUE, {"GET"})

\* only post(request)
SrcPostOnly == Source(TRUE, Attrs([post |-> Fn(1, FALSE, "dict_post")]), FALSE, {})

\* a function named options and a handle that lists OPTIONS
SrcOptions ==
  Source(TRUE, Attrs([options |-> Fn(0, FALSE, "dict_options"),
                      handle |-> Fn(1, FALSE, "dict_handle")]), TRUE, {"GET", "OPTIONS"})

\* get(request) raises; a handle is defined as well
SrcRaise ==
  Source(TRUE, Attrs([get |-> Fn(1, FALSE, "raise"), handle |-> Fn(1, FALSE, "dict_handle")]),
         TRUE, {"GET", "POST"})

\* def get(*args): co_argcount is 0
SrcVarargs == Source(TRUE, Attrs([get |-> Fn(0, TRUE, "dict_get")]), FALSE, {})

\* get is a callable object (a class instance, a partial): it has no __code__
SrcObject ==
  Source(TRUE, Attrs([get |-> [kind |-> "object", argcount |-> 1, varargs |-> FALSE,
                               behav |-> "dict_get"],
                      handle |-> Fn(1, FALSE, "dict_handle")]),
         FALSE, {})

\* handle only, no SUPPORTED_METHODS; get is a plain value
SrcDefault ==
  Source(TRUE, Attrs([get |-> [kind |-> "value", argcount |-> 0, varargs |-> FALSE,
                               behav |-> "none"],
                      handle |-> Fn(1, FALSE, "dict_handle")]), FALSE, {})

\* verb functions that return every shape of value _as_response tells apart
SrcShapes ==
  Source(TRUE, Attrs([get |-> Fn(1, FALSE, "str"), post |-> Fn(1, FALSE, "bytes"),
                      put |-> Fn(1, FALSE, "tuple2"), delete |-> Fn(1, FALSE, "tuple3"),
                      patch |-> Fn(1, FALSE, "response"), head |-> Fn(1, FALSE, "set")]),
         FALSE, {})

\* neither convention
SrcEmpty == Source(TRUE, Attrs(<<>>), FALSE, {})

\* executing the file raises (syntax error, failing top-level statement)
SrcBroken == Source(FALSE, Attrs(<<>>), FALSE, {})

\* the content of a file that is no handler
NoSrc == Source(FALSE, Attrs(<<>>), FALSE, {})

\* faulty variant: a module without SUPPORTED_METHODS allows every verb
SupportedDefaultAll(src) == IF src.has_supported THEN src.supported ELSE HTTP_METHODS

\* getattr(mod, "SUPPORTED_METHODS", ["GET"])
SupportedMethods(src) == IF src.has_supported THEN src.supported ELSE {"GET"}

\* ------------------------------------------------------------------------
\* Return values of entry points and responses
\* ------------------------------------------------------------------------
Value(type, body, status, headers) ==
  [type |-> type, body |-> body, status |-> status, headers |-> headers]

\* what running an entry point's body yields: a return value or an exception
Returned(v) == [raised |-> FALSE, val |-> v, msg |-> "none"]
Raised(m) == [raised |-> TRUE, val |-> Value("none", "none", 0, "none"), msg |-> m]

\* the body of an entry point, run for a request with the given method
RunBody(behav, method) ==
  CASE behav = "example" ->
         IF method = "GET" THEN Returned(Value("dict", "animals", 0, "none"))
         ELSE Returned(Value("dict", "created", 0, "none"))
    [] behav = "raise" -> Raised("boom")
    [] behav = "str" -> Returned(Value("str", "text", 0, "none"))
    [] behav = "bytes" -> Returned(Value("bytes", "blob", 0, "none"))
    [] behav = "tuple2" -> Returned(Value("tuple2", "made", 201, "none"))
    [] behav = "tuple3" -> Returned(Value("tuple3", "made", 202, "X-A"))
    [] behav = "response" -> Returned(Value("Response", "built", 418, "X-R"))
    [] behav = "set" -> Returned(Value("set", "unserialisable", 0, "none"))
    [] OTHER -> Returned(Value("dict", behav, 0, "none"))

\* calling a def with nargs positional arguments: TypeError unless they fit
Call(fn, nargs, method) ==
  IF fn.kind = "function" /\ ~(nargs = fn.argcount \/ (fn.varargs /\ nargs >= fn.argcount))
  THEN Raised("TypeError")
  ELSE RunBody(fn.behav, method)

\* a response body: a tag, a message, the path or project it is about and
\* the names it lists
Body(tag, text, ref, names) == [tag |-> tag, text |-> text, ref |-> ref, names |-> names]

NoBody == Body("empty", "", <<>>, {})

Response(status, kind, body, headers) ==
  [status |-> status, kind |-> kind, body |-> body, headers |-> headers]

NoResp == Response(0, "none", NoBody, "none")

\* abort(status, description=...): werkzeug's HTTPException page
Abort(status, description) == Response(status, "html", Body("abort", description, <<>>, {}), "none")

\* an exception nobody catches: Flask answers 500 Internal Server Error
Fault(msg) == Response(500, "fault", Body("exception", msg, <<>>, {}), "none")

\* return jsonify({"error": str(e)}), 500
JsonError(msg) == Response(500, "json", Body("error", msg, <<>>, {}), "none")

\* faulty variant: every return value is handed to jsonify
AsResponseJsonOnly(res) ==
  IF res.type = "set" THEN Raised("TypeError")
  ELSE Returned(Response(200, "json", Body(res.type, res.body, <<>>, {}), "none"))

\* _as_response(res), followed by Flask's conversion of the view's return
\* value; jsonify raises TypeError for a value it cannot serialise
_as_response(res) ==
  LET body == Body(res.type, res.body, <<>>, {})
  IN CASE res.type = "Response" -> Returned(Response(res.status, "raw", body, res.headers))
       [] res.type = "tuple2" -> Returned(Response(res.status, "raw", body, "none"))
       [] res.type = "tuple3" -> Returned(Response(res.status, "raw", body, res.headers))
       [] res.type \in {"str", "bytes"} -> Returned(Response(200, "raw", body, "none"))
       [] res.type = "set" -> Raised("TypeError")
       [] OTHER -> Returned(Response(200, "json", body, "none"))

\* ------------------------------------------------------------------------
\* State
\* ------------------------------------------------------------------------
VARIABLES
  files,            \* the disk: path -> [exists, mtime, src, ver]
  loaded_modules,   \* (project, module_name) -> [module, mtime, path]
  registry_lock,    \* the request that holds the lock, 0 when it is free
  heap,             \* the module objects created so far; a module is its index
  pc,               \* where each request thread stands
  req,              \* the request a thread serves or has served
  mtime,            \* load_module's local mtime
  mod,              \* the module load_module works with or returned
  call,             \* the entry points the dispatch has invoked
  resp,             \* the response of the finished dispatch
  fslog,            \* the file-system calls the dispatch has made
  pure,             \* a function application: [f, root, path, res]
  lastCall,         \* history: per key, label and result of the last lock section
  start,            \* history: what a request found on disk and in the cache when it
                    \* arrived, and the version of the file whose mtime it read
  mtimes            \* history of the writes: "advancing" while every write gave its
                    \* file a newer mtime, "changing" while every write changed the
                    \* mtime, "repeating" once a write kept it

\* the vector-store server (multi-tenant-chromadb.py)
VARIABLES
  project_clients,  \* project name -> the client object made for it
  project_paths,    \* the storage directories get_project_path has made
  clients,          \* the PersistentClient objects constructed so far, by their path
  collections,      \* on disk: project name -> names of its collections
  task,             \* the request coroutines: [pc, req]
  answered          \* the request answered last: [req, data, resp, calls]

storevars == <<project_clients, project_paths, clients, collections, task, answered>>

webvars ==
  <<files, loaded_modules, registry_lock, heap, pc, req, mtime, mod, call, resp, fslog,
    lastCall, start, mtimes>>

vars ==
  <<files, loaded_modules, registry_lock, heap, pc, req, mtime, mod, call, resp, fslog,
    pure, lastCall, start, mtimes, project_clients, project_paths, clients, collections,
    task, answered>>

Requests == 1..NumRequests

\* faulty variant: the key leaves the project out
KeyByModule(r) == <<P_NAME, r.name>>

Key(r) == <<r.project, r.name>>

\* every key a request of the model can name
AllProjects == {P_NAME, Q_NAME, N_NAME, DOTDOT, BS_NAME}
AllModules == {M_NAME, G_NAME}
AllKeys == AllProjects \X AllModules

\* api_file_path, api_dir and the file on disk of every key
HandlerPath == [k \in AllKeys |-> api_file_path(k[1], k[2])]
ApiDir == [p \in AllProjects |-> api_dir(p)]
KeyFile == [k \in AllKeys |-> Resolve(HandlerPath[k])]
KeyGuard == [k \in AllKeys |-> _ensure_in_dir(ApiDir[k[1]], HandlerPath[k])]

NoStart == [ver |-> 0, cached |-> 0, seen |-> 0]

File(exists, mt, src, ver) == [exists |-> exists, mtime |-> mt, src |-> src, ver |-> ver]

InitFiles ==
  [f \in FilePaths |-> IF f \in HandlerPaths THEN File(TRUE, 0, SrcExample, 0)
                       ELSE File(TRUE, 0, NoSrc, 0)]

\* a request to the vector store: the endpoint and its path parameters
StoreReq(endpoint, project_name, collection_name) ==
  [endpoint |-> endpoint, project_name |-> project_name, collection_name |-> collection_name]

\* raise HTTPException(status_code=..., detail=...), as FastAPI answers it
HTTPException(status, detail) == [status |-> status, detail |-> detail]

NoStoreResp == HTTPException(0, "none")

IdleTask == [pc |-> "idle", req |-> StoreReq("none", <<>>, "none")]

\* the body of a request as request.json() sees it: not JSON at all, a JSON
\* value that is no object, or an object with the fields the endpoints read
Data(kind, has_name, name, get_or_create, has_ids, ids) ==
  [kind |-> kind, has_name |-> has_name, name |-> name, get_or_create |-> get_or_create,
   has_ids |-> has_ids, ids |-> ids]

NoData == Data("dict", FALSE, "", FALSE, FALSE, <<>>)

NoAnswer == [req |-> StoreReq("none", <<>>, "none"), data |-> NoData, resp |-> NoStoreResp, calls |-> <<>>]

InitServer ==
  /\ project_clients = <<>>
  /\ project_paths = {}
  /\ clients = <<>>
  /\ collections = <<>>
  /\ task = [t \in Requests |-> IdleTask]
  /\ answered = NoAnswer
  /\ loaded_modules = <<>>
  /\ registry_lock = 0
  /\ heap = <<>>
  /\ pc = [t \in Requests |-> "idle"]
  /\ req = [t \in Requests |->
              [route |-> "none", project |-> <<>>, name |-> <<>>, method |-> "none"]]
  /\ mtime = [t \in Requests |-> -1]
  /\ mod = [t \in Requests |-> 0]
  /\ call = [t \in Requests |-> <<>>]
  /\ resp = [t \in Requests |-> NoResp]
  /\ fslog = [t \in Requests |-> <<>>]
  /\ lastCall = [k \in AllKeys |-> [mtime |-> -1, module |-> 0]]
  /\ start = [t \in Requests |-> NoStart]
  /\ mtimes = "advancing"

InitRest == InitServer /\ pure = [f |-> "none", root |-> <<>>, path |-> <<>>, res |-> -1]

Init == files = InitFiles /\ InitRest

\* loaded_modules.get(key)
HasEntry(lm, key) == key \in DOMAIN lm

\* loaded_modules[key] = entry
\* faulty variant: the dictionary is replaced by one that holds the new entry only
PutAlone(lm, key, entry) == [k \in {key} |-> entry]

Put(lm, key, entry) == [k \in (DOMAIN lm) \cup {key} |-> IF k = key THEN entry ELSE lm[k]]

\* does the file of a key exist on disk
OnDisk(fs, k) == KeyFile[k] \in FilePaths /\ fs[KeyFile[k]].exists

FsCall(op, path, target, guarded) ==
  [op |-> op, path |-> path, target |-> target, guarded |-> guarded]

\* the dispatch of t ends with response r; load_module's locals are gone
Finish(t, r) ==
  /\ pc' = [pc EXCEPT ![t] = "idle"]
  /\ resp' = [resp EXCEPT ![t] = r]
  /\ mtime' = [mtime EXCEPT ![t] = -1]
  /\ mod' = [mod EXCEPT ![t] = 0]
  /\ start' = [start EXCEPT ![t] = NoStart]

\* ------------------------------------------------------------------------
\* dynamic_api and load_module
\* ------------------------------------------------------------------------
\* faulty variant: OPTIONS is dispatched like any other verb
NeverPreflight(method) == FALSE

\* if request.method == "OPTIONS"
IsPreflight(method) == method = "OPTIONS"

\* faulty variants of the cache test: inverted comparison, mtime ignored,
\* cache never consulted
CacheHitStale(lm, key, mt) == HasEntry(lm, key) /\ lm[key].mtime # mt

CacheHitAnyMtime(lm, key, mt) == HasEntry(lm, key)

CacheHitNever(lm, key, mt) == FALSE

\* faulty variant: only a file newer than the cached entry is reloaded
CacheHitNewerOnly(lm, key, mt) == HasEntry(lm, key) /\ lm[key].mtime >= mt

\* entry and entry["mtime"] == mtime
CacheHit(lm, key, mt) == HasEntry(lm, key) /\ lm[key].mtime = mt

\* faulty variant: the lock excludes nobody
LockAlwaysFree(lock) == TRUE

\* with registry_lock: another thread's lock blocks
LockFree(lock) == lock = 0

\* a request for /<project>/api/<module_name> arrives; a preflight is
\* answered before load_module is called
dynamic_api(t, projects, modules, methods) ==
  /\ pc[t] = "idle"
  /\ \E p \in projects, m \in modules, v \in methods :
       LET r == [route |-> "dynamic_api", project |-> p, name |-> m, method |-> v]
           k == Key(r)
       IN /\ req' = [req EXCEPT ![t] = r]
          /\ IF IsPreflight(v)
             THEN Finish(t, Response(204, "empty", NoBody, "none"))
             ELSE /\ pc' = [pc EXCEPT ![t] = "isfile"]
                  /\ resp' = [resp EXCEPT ![t] = NoResp]
                  /\ mtime' = [mtime EXCEPT ![t] = -1]
                  /\ mod' = [mod EXCEPT ![t] = 0]
                  /\ start' = [start EXCEPT ![t] =
                       [ver |-> IF KeyFile[k] \in FilePaths THEN files[KeyFile[k]].ver ELSE 0,
                        cached |-> IF HasEntry(loaded_modules, k) /\ OnDisk(files, k)
                                      /\ loaded_modules[k].mtime # files[KeyFile[k]].mtime
                                   THEN loaded_modules[k].module ELSE 0,
                        seen |-> 0]]
  /\ call' = [call EXCEPT ![t] = <<>>]
  /\ fslog' = [fslog EXCEPT ![t] = <<>>]
  /\ UNCHANGED <<files, loaded_modules, registry_lock, heap, pure, lastCall, mtimes>>
  /\ UNCHANGED storevars

\* load_module: path = api_file_path(...); if not os.path.isfile(path): abort(404)
IsFile(t) ==
  /\ pc[t] = "isfile"
  /\ LET k == Key(req[t])
     IN /\ fslog' = [fslog EXCEPT ![t] =
                       Append(@, FsCall("isfile", HandlerPath[k], KeyFile[k], FALSE))]
        /\ IF ~OnDisk(files, k)
           THEN Finish(t, Abort(404, "API module not found"))
           ELSE pc' = [pc EXCEPT ![t] = "guard"] /\ UNCHANGED <<resp, mtime, mod, start>>
  /\ UNCHANGED <<files, loaded_modules, registry_lock, heap, req, call, pure, lastCall,
                 mtimes>>
  /\ UNCHANGED storevars

\* load_module: _ensure_in_dir(api_dir(project), path); mtime = os.path.getmtime(path)
GuardMtime(t) ==
  /\ pc[t] = "guard"
  /\ LET k == Key(req[t])
     IN IF KeyGuard[k] # 0
        THEN Finish(t, Abort(403, "Forbidden path")) /\ UNCHANGED fslog
        ELSE /\ fslog' = [fslog EXCEPT ![t] =
                            Append(@, FsCall("getmtime", HandlerPath[k], KeyFile[k], TRUE))]
             /\ IF ~OnDisk(files, k)
                THEN Finish(t, Fault("FileNotFoundError"))
                ELSE /\ mtime' = [mtime EXCEPT ![t] = files[KeyFile[k]].mtime]
                     /\ start' = [start EXCEPT ![t].seen = files[KeyFile[k]].ver]
                     /\ pc' = [pc EXCEPT ![t] = "lock"]
                     /\ UNCHANGED <<resp, mod>>
  /\ UNCHANGED <<files, loaded_modules, registry_lock, heap, req, call, pure, lastCall,
                 mtimes>>
  /\ UNCHANGED storevars

\* load_module: with registry_lock: entry = loaded_modules.get(key); a hit
\* returns the cached module and leaves the with block
Acquire(t) ==
  /\ pc[t] = "lock"
  /\ LockFree(registry_lock)
  /\ LET key == Key(req[t])
     IN IF CacheHit(loaded_modules, key, mtime[t])
        THEN /\ mod' = [mod EXCEPT ![t] = loaded_modules[key].module]
             /\ pc' = [pc EXCEPT ![t] = "invoke"]
             /\ lastCall' = [lastCall EXCEPT ![key] =
                               [mtime |-> mtime[t], module |-> loaded_modules[key].module]]
             /\ UNCHANGED registry_lock
        ELSE /\ registry_lock' = t
             /\ pc' = [pc EXCEPT ![t] = "import"]
             /\ UNCHANGED <<mod, lastCall>>
  /\ UNCHANGED <<files, loaded_modules, heap, req, mtime, call, resp, fslog, pure, start,
                 mtimes>>
  /\ UNCHANGED storevars

\* faulty variant: the module object created last is reused and overwritten
ReloadInPlace(h, rec) == IF h = <<>> THEN <<rec>> ELSE [h EXCEPT ![Len(h)] = rec]

\* faulty variant: the new module object runs the code of the previous load
NewModuleOldCode(h, rec) ==
  Append(h, IF h = <<>> THEN rec ELSE [rec EXCEPT !.src = h[Len(h)].src, !.ver = h[Len(h)].ver])

\* importlib.util.module_from_spec(spec): a new module object
NewModule(h, rec) == Append(h, rec)

\* faulty variant: a failed import drops the entry the key had
ImportEvictsOnFailure(t) ==
  /\ pc[t] = "import"
  /\ Len(heap) < MaxLoads
  /\ LET k == Key(req[t])
     IN /\ fslog' = [fslog EXCEPT ![t] =
                       Append(@, FsCall("exec_module", HandlerPath[k], KeyFile[k], TRUE))]
        /\ IF ~OnDisk(files, k) \/ ~files[KeyFile[k]].src.importable
           THEN /\ registry_lock' = 0
                /\ Finish(t, Fault("import failed"))
                /\ lastCall' = [lastCall EXCEPT ![k] = [mtime |-> mtime[t], module |-> 0]]
                /\ UNCHANGED heap
                /\ loaded_modules' = [j \in DOMAIN loaded_modules \ {k} |-> loaded_modules[j]]
           ELSE /\ heap' = NewModule(heap, [src |-> files[KeyFile[k]].src,
                                            ver |-> files[KeyFile[k]].ver,
                                            mtime |-> mtime[t]])
                /\ mod' = [mod EXCEPT ![t] = Len(heap')]
                /\ pc' = [pc EXCEPT ![t] = "install"]
                /\ UNCHANGED <<registry_lock, resp, lastCall, mtime, start, loaded_modules>>
  /\ UNCHANGED <<files, req, call, pure, mtimes>>
  /\ UNCHANGED storevars

\* _import_module: spec.loader.exec_module(mod) reads and runs the file as it
\* is now; an exception leaves the with block and reaches Flask
_import_module(t) ==
  /\ pc[t] = "import"
  /\ Len(heap) < MaxLoads
  /\ LET k == Key(req[t])
     IN /\ fslog' = [fslog EXCEPT ![t] =
                       Append(@, FsCall("exec_module", HandlerPath[k], KeyFile[k], TRUE))]
        /\ IF ~OnDisk(files, k) \/ ~files[KeyFile[k]].src.importable
           THEN /\ registry_lock' = 0
                /\ Finish(t, Fault("import failed"))
                /\ lastCall' = [lastCall EXCEPT ![k] = [mtime |-> mtime[t], module |-> 0]]
                /\ UNCHANGED heap
           ELSE /\ heap' = NewModule(heap, [src |-> files[KeyFile[k]].src,
                                            ver |-> files[KeyFile[k]].ver,
                                            mtime |-> mtime[t]])
                /\ mod' = [mod EXCEPT ![t] = Len(heap')]
                /\ pc' = [pc EXCEPT ![t] = "install"]
                /\ UNCHANGED <<registry_lock, resp, lastCall, mtime, start>>
  /\ UNCHANGED <<files, loaded_modules, req, call, pure, mtimes>>
  /\ UNCHANGED storevars

\* faulty variant: the dispatch goes on inside the with block
InstallKeepLock(t) ==
  /\ pc[t] = "install"
  /\ LET key == Key(req[t])
     IN /\ loaded_modules' = Put(loaded_modules, key,
                                 [module |-> mod[t], mtime |-> mtime[t],
                                  path |-> HandlerPath[key]])
        /\ lastCall' = [lastCall EXCEPT ![key] = [mtime |-> mtime[t], module |-> mod[t]]]
  /\ pc' = [pc EXCEPT ![t] = "invoke"]
  /\ UNCHANGED <<files, registry_lock, heap, req, mtime, mod, call, resp, fslog, pure, start,
                 mtimes>>
  /\ UNCHANGED storevars

\* load_module: loaded_modules[key] = {...}; return mod (the lock is released)
Install(t) ==
  /\ pc[t] = "install"
  /\ LET key == Key(req[t])
     IN /\ loaded_modules' = Put(loaded_modules, key,
                                 [module |-> mod[t], mtime |-> mtime[t],
                                  path |-> HandlerPath[key]])
        /\ lastCall' = [lastCall EXCEPT ![key] = [mtime |-> mtime[t], module |-> mod[t]]]
  /\ registry_lock' = 0
  /\ pc' = [pc EXCEPT ![t] = "invoke"]
  /\ UNCHANGED <<files, heap, req, mtime, mod, call, resp, fslog, pure, start, mtimes>>
  /\ UNCHANGED storevars

\* faulty variant: a module with no entry point is reported as not found
MisconfiguredAsNotFound == Abort(404, "must define verb functions or handle(request)")

\* abort(500, description="... must define verb functions or handle(request)")
Misconfigured == Abort(500, "must define verb functions or handle(request)")

\* the entry point dynamic_api selects: the verb function, else handle
Selection(src, method) ==
  LET func == src.attrs[Lower(method)]
      handle == src.attrs["handle"]
  IN IF callable(func)
     THEN IF func.kind = "object"
          THEN [kind |-> "error", name |-> Lower(method), nargs |-> 0,
                resp |-> JsonError("AttributeError")]
          ELSE [kind |-> "call", name |-> Lower(method),
                nargs |-> IF func.argcount = 0 THEN 0 ELSE 1, resp |-> NoResp]
     ELSE IF callable(handle)
     THEN IF method \notin SupportedMethods(src)
          THEN [kind |-> "error", name |-> "handle", nargs |-> 0,
                resp |-> Abort(405, "Method Not Allowed")]
          ELSE [kind |-> "call", name |-> "handle", nargs |-> 1, resp |-> NoResp]
     ELSE [kind |-> "error", name |-> "none", nargs |-> 0, resp |-> Misconfigured]

\* faulty variant: no try/except around the call
OutcomeUncaught(fn, nargs, method) ==
  LET out == Call(fn, nargs, method)
      r == _as_response(out.val)
  IN IF out.raised THEN Fault(out.msg)
     ELSE IF r.raised THEN Fault(r.msg)
     ELSE r.val

\* the response to a call of entry point fn with nargs arguments
Outcome(fn, nargs, method) ==
  LET out == Call(fn, nargs, method)
      r == _as_response(out.val)
  IN IF out.raised THEN JsonError(out.msg)
     ELSE IF r.raised THEN JsonError(r.msg)
     ELSE r.val

\* dynamic_api after load_module: the entry point is selected, runs outside
\* the lock for as long as it likes, and its result is normalised
Invoke(t) ==
  /\ pc[t] = "invoke"
  /\ LET src == heap[mod[t]].src
         sel == Selection(src, req[t].method)
     IN IF sel.kind = "error"
        THEN Finish(t, sel.resp) /\ UNCHANGED call
        ELSE /\ call' = [call EXCEPT ![t] =
                           Append(@, [module |-> mod[t], name |-> sel.name,
                                      nargs |-> sel.nargs])]
             /\ Finish(t, Outcome(src.attrs[sel.name], sel.nargs, req[t].method))
  /\ UNCHANGED <<files, loaded_modules, registry_lock, heap, req, fslog, pure, lastCall,
                 mtimes>>
  /\ UNCHANGED storevars

\* ------------------------------------------------------------------------
\* list_api_modules, serve_index and serve_file
\* ------------------------------------------------------------------------
UNDERSCORE == <<"_">>

\* fn[:-3]
StripExt(fn) == SubSeq(fn, 1, Len(fn) - 3)

\* the names list_api_modules reports for a directory listing
ModuleNames(entries) ==
  { StripExt(fn) : fn \in { e \in entries : EndsWith(e, PY_EXT) /\ ~StartsWith(e, UNDERSCORE) } }

\* the entries a generated directory listing shows
Listed(entries) == { e \in entries : ~StartsWith(e, <<DOT>>) }

\* send_from_directory(directory, filename): the file's content
SendFile(path) == Response(200, "file", Body("file", "", path, {}), "none")

\* a request that is answered in one step: no locals survive it
Answer(t, r, rsp, log) ==
  /\ pc[t] = "idle"
  /\ req' = [req EXCEPT ![t] = r]
  /\ Finish(t, rsp)
  /\ call' = [call EXCEPT ![t] = <<>>]
  /\ fslog' = [fslog EXCEPT ![t] = log]
  /\ UNCHANGED <<files, loaded_modules, registry_lock, heap, pure, lastCall, mtimes>>
  /\ UNCHANGED storevars

\* GET /<project>/api/
list_api_modules(t, projects) ==
  \E project \in projects :
    LET p == api_dir(project)
        r == [route |-> "list_api_modules", project |-> project, name |-> <<>>,
              method |-> "GET"]
    IN IF ~isdir(p)
       THEN Answer(t, r, Response(200, "json", Body("modules", "No api/ directory", project, {}),
                                  "none"),
                   <<FsCall("isdir", p, Resolve(p), FALSE)>>)
       ELSE Answer(t, r, Response(200, "json",
                                  Body("modules", "", project, ModuleNames(listdir(files, p))),
                                  "none"),
                   <<FsCall("isdir", p, Resolve(p), FALSE),
                     FsCall("listdir", p, Resolve(p), FALSE)>>)

\* the body of serve_index and of serve_file's directory branch: index.html
\* if the directory has one, else a generated listing
ServeDir(dir) ==
  LET idx == join(dir, INDEX_HTML)
  IN IF isfile(files, idx) THEN SendFile(Resolve(idx))
     ELSE Response(200, "html", Body("listing", "", Resolve(dir), Listed(listdir(files, dir))),
                   "none")

ServeDirLog(dir, guarded) ==
  LET idx == join(dir, INDEX_HTML)
  IN IF isfile(files, idx)
     THEN <<FsCall("isdir", dir, Resolve(dir), guarded),
            FsCall("isfile", idx, Resolve(idx), guarded),
            FsCall("send", idx, Resolve(idx), guarded)>>
     ELSE <<FsCall("isdir", dir, Resolve(dir), guarded),
            FsCall("isfile", idx, Resolve(idx), guarded),
            FsCall("listdir", dir, Resolve(dir), guarded)>>

\* GET /<project>/
serve_index(t, projects) ==
  \E project \in projects :
    LET root == project_root(project)
        r == [route |-> "serve_index", project |-> project, name |-> <<>>, method |-> "GET"]
    IN IF ~isdir(root)
       THEN Answer(t, r, Abort(404, "Project not found"),
                   <<FsCall("isdir", root, Resolve(root), FALSE)>>)
       ELSE Answer(t, r, ServeDir(root), ServeDirLog(root, FALSE))

\* faulty variant: the joined path is used as it is, without the Path Guard
ServeUnguarded(t, r, root, filepath) ==
  LET full == join(root, filepath)
  IN IF isdir(full)
     THEN Answer(t, r, ServeDir(full), ServeDirLog(full, FALSE))
     ELSE IF ~isfile(files, full)
     THEN Answer(t, r, Abort(404, "Not Found"),
                 <<FsCall("isdir", full, Resolve(full), FALSE),
                   FsCall("isfile", full, Resolve(full), FALSE)>>)
     ELSE Answer(t, r, SendFile(Resolve(full)),
                 <<FsCall("isdir", full, Resolve(full), FALSE),
                   FsCall("isfile", full, Resolve(full), FALSE),
                   FsCall("send", full, Resolve(full), FALSE)>>)

\* the static-file body shared by serve_file and web_serve_file
ServeUnder(t, r, root, filepath) ==
  LET full == join(root, filepath)
  IN IF _ensure_in_dir(root, full) # 0
     THEN Answer(t, r, Abort(403, "Forbidden path"), <<>>)
     ELSE IF isdir(full)
     THEN Answer(t, r, ServeDir(full), ServeDirLog(full, TRUE))
     ELSE IF ~isfile(files, full)
     THEN Answer(t, r, Abort(404, "Not Found"),
                 <<FsCall("isdir", full, Resolve(full), TRUE),
                   FsCall("isfile", full, Resolve(full), TRUE)>>)
     ELSE Answer(t, r, SendFile(Resolve(full)),
                 <<FsCall("isdir", full, Resolve(full), TRUE),
                   FsCall("isfile", full, Resolve(full), TRUE),
                   FsCall("send", full, Resolve(full), TRUE)>>)

\* GET /<project>/<path:filepath>
serve_file(t, projects, filepaths) ==
  \E project \in projects, filepath \in filepaths :
    ServeUnder(t, [route |-> "serve_file", project |-> project, name |-> filepath,
                   method |-> "GET"],
               project_root(project), filepath)

\* GET /web/<project>/<path:filepath>
web_serve_file(t, projects, filepaths) ==
  \E project \in projects, filepath \in filepaths :
    ServeUnder(t, [route |-> "web_serve_file", project |-> project, name |-> filepath,
                   method |-> "GET"],
               web_root(project), filepath)

\* ------------------------------------------------------------------------
\* The environment: handler files are written and deleted at any time
\* ------------------------------------------------------------------------
WriteFile(paths, sources) ==
  \E f \in paths, src \in sources, mt \in 0..MaxMtime :
    /\ files[f].ver < MaxWrites
    /\ files' = [files EXCEPT ![f] = File(TRUE, mt, src, files[f].ver + 1)]
    /\ mtimes' = IF mt = files[f].mtime THEN "repeating"
                  ELSE IF mt < files[f].mtime /\ mtimes = "advancing" THEN "changing"
                  ELSE mtimes
    /\ UNCHANGED <<loaded_modules, registry_lock, heap, pc, req, mtime, mod, call, resp,
                   fslog, pure, lastCall, start>>
    /\ UNCHANGED storevars

DeleteFile(paths) ==
  \E f \in paths :
    /\ files[f].exists
    /\ files[f].ver < MaxWrites
    /\ files' = [files EXCEPT ![f].exists = FALSE]
    /\ UNCHANGED <<loaded_modules, registry_lock, heap, pc, req, mtime, mod, call, resp,
                   fslog, pure, lastCall, start, mtimes>>
    /\ UNCHANGED storevars

\* ------------------------------------------------------------------------
\* The server under concurrent requests
\* ------------------------------------------------------------------------
CacheProjects == {P_NAME}
CacheModules == {M_NAME}
CacheMethods == {"GET"}
CacheSources == {SrcExample, SrcBroken}
CachePaths == {KeyFile[<<P_NAME, M_NAME>>]}

Next ==
  \/ \E t \in Requests : dynamic_api(t, CacheProjects, CacheModules, CacheMethods)
  \/ \E t \in Requests : IsFile(t)
  \/ \E t \in Requests : GuardMtime(t)
  \/ \E t \in Requests : Acquire(t)
  \/ \E t \in Requests : _import_module(t)
  \/ \E t \in Requests : Install(t)
  \/ \E t \in Requests : Invoke(t)
  \/ WriteFile(CachePaths, CacheSources)
  \/ DeleteFile(CachePaths)

Spec == Init /\ [][Next]_vars

\* ------------------------------------------------------------------------
\* Requests that race while the file is only rewritten between them
\* ------------------------------------------------------------------------
Quiet == \A t \in Requests : pc[t] = "idle"

NextRace ==
  \/ \E t \in Requests : dynamic_api(t, CacheProjects, CacheModules, CacheMethods)
  \/ \E t \in Requests : IsFile(t)
  \/ \E t \in Requests : GuardMtime(t)
  \/ \E t \in Requests : Acquire(t)
  \/ \E t \in Requests : _import_module(t)
  \/ \E t \in Requests : Install(t)
  \/ \E t \in Requests : Invoke(t)
  \/ (Quiet /\ WriteFile(CachePaths, CacheSources))
  \/ (Quiet /\ DeleteFile(CachePaths))

SpecRace == Init /\ [][NextRace]_vars

\* ------------------------------------------------------------------------
\* One dispatcher thread, every verb, every shape of handler
\* ------------------------------------------------------------------------
DispatchSources ==
  {SrcExample, SrcVerbs, SrcPostOnly, SrcOptions, SrcRaise, SrcVarargs, SrcObject,
   SrcDefault, SrcShapes, SrcEmpty, SrcBroken}

InitDispatch ==
  /\ \E src \in DispatchSources :
       files = [InitFiles EXCEPT ![KeyFile[<<P_NAME, M_NAME>>]].src = src]
  /\ InitRest

NextDispatch ==
  \/ dynamic_api(1, {P_NAME}, {M_NAME, G_NAME}, HTTP_METHODS)
  \/ IsFile(1)
  \/ GuardMtime(1)
  \/ Acquire(1)
  \/ _import_module(1)
  \/ Install(1)
  \/ Invoke(1)

SpecDispatch == InitDispatch /\ [][NextDispatch]_vars

\* ------------------------------------------------------------------------
\* One thread, every route, project names and file paths of every shape
\* ------------------------------------------------------------------------
GuardFilePaths ==
  { <<"a", "p", "i">>, <<"w", "e", "b">>, <<"x">>,
    <<"a", "p", "i", "/", "r", ".", "t", "x", "t">>,
    <<".", ".", "/", ".", ".", "/", "k">>,
    <<".", ".", "/", "q">>,
    <<".", ".", "/", "p", "p">>,
    <<"a", "p", "i", "/", ".", ".", "/", ".", ".", "/", "q", "/", "i", "n", "d", "e", "x", ".", "h", "t", "m", "l">> }

NextGuard ==
  \/ dynamic_api(1, AllProjects, AllModules, {"GET", "OPTIONS"})
  \/ IsFile(1)
  \/ GuardMtime(1)
  \/ Acquire(1)
  \/ _import_module(1)
  \/ Install(1)
  \/ Invoke(1)
  \/ list_api_modules(1, AllProjects)
  \/ serve_index(1, AllProjects)
  \/ serve_file(1, AllProjects, GuardFilePaths)
  \/ web_serve_file(1, AllProjects, GuardFilePaths)

SpecGuard == Init /\ [][NextGuard]_vars

\* ------------------------------------------------------------------------
\* Two projects: one whose handler fails and is deleted at some time, one
\* whose handler stays as it is
\* ------------------------------------------------------------------------
TenantProjects == {P_NAME, Q_NAME}
TenantPaths == {KeyFile[<<P_NAME, M_NAME>>]}

InitTenants ==
  /\ files = [InitFiles EXCEPT ![KeyFile[<<P_NAME, M_NAME>>]].src = SrcRaise]
  /\ InitRest

NextTenants ==
  \/ \E t \in Requests : dynamic_api(t, TenantProjects, CacheModules, CacheMethods)
  \/ \E t \in Requests : IsFile(t)
  \/ \E t \in Requests : GuardMtime(t)
  \/ \E t \in Requests : Acquire(t)
  \/ \E t \in Requests : _import_module(t)
  \/ \E t \in Requests : Install(t)
  \/ \E t \in Requests : Invoke(t)
  \/ DeleteFile(TenantPaths)

SpecTenants == InitTenants /\ [][NextTenants]_vars

\* ------------------------------------------------------------------------
\* _ensure_in_dir applied to roots and paths of every shape
\* ------------------------------------------------------------------------
MaxPathLen == 5

PathChars == {"/", ".", "a", "b"}

RECURSIVE Strings(_)
\* all strings of at most n characters
Strings(n) ==
  IF n = 0 THEN {<<>>}
  ELSE LET shorter == Strings(n - 1)
       IN shorter \cup { Append(s, c) : s \in { x \in shorter : Len(x) = n - 1 }, c \in PathChars }

EnsureRoots == { <<"/", "b">>, <<"/", "a", "/", "b">>, <<"/", "a", "/", "b", "/">>, <<"/", "a", "/", ".", "/", "b">> }

InitEnsure ==
  /\ files = InitFiles
  /\ InitServer
  /\ \E root \in EnsureRoots, path \in Strings(MaxPathLen) :
       pure = [f |-> "_ensure_in_dir", root |-> root, path |-> path, res |-> -1]

ApplyEnsure ==
  /\ pure.f = "_ensure_in_dir"
  /\ pure.res = -1
  /\ pure' = [pure EXCEPT !.res = _ensure_in_dir(pure.root, pure.path)]
  /\ UNCHANGED <<files, loaded_modules, registry_lock, heap, pc, req, mtime, mod, call, resp,
                 fslog, lastCall, start, mtimes>>
  /\ UNCHANGED storevars

SpecEnsure == InitEnsure /\ [][ApplyEnsure]_vars

\* ------------------------------------------------------------------------
\* The vector-store server: validate_project_name
\* ------------------------------------------------------------------------
\* dangerous_chars = ['..', '/', '\\', ':', '*', '?', '"', '<', '>', '|']
dangerous_chars ==
  { DOTDOT, <<"/">>, <<"\\">>, <<":">>, <<"*">>, <<"?">>, <<"\"">>, <<"<">>, <<">">>, <<"|">> }

\* char in project_name: the substring test of str
In(sub, str) ==
  \E i \in 1..(Len(str) - Len(sub) + 1) : SubSeq(str, i, i + Len(sub) - 1) = sub

\* if len(project_name) > 50
MAX_NAME_LENGTH == 50

\* faulty variant: the length test is off by one
ValidateShorter(project_name) ==
  /\ project_name # <<>>
  /\ ~(\E char \in dangerous_chars : In(char, project_name))
  /\ ~(Len(project_name) >= MAX_NAME_LENGTH)

validate_project_name(project_name) ==
  /\ project_name # <<>>
  /\ ~(\E char \in dangerous_chars : In(char, project_name))
  /\ ~(Len(project_name) > MAX_NAME_LENGTH)

\* ------------------------------------------------------------------------
\* validate_project_name applied to names of every shape
\* ------------------------------------------------------------------------
MaxNameLen == 3

NameChars == {"a", " ", ".", "/", "\\", ":", "*", "?", "\"", "<", ">", "|"}

RECURSIVE Names(_)
\* all names of at most n characters
Names(n) ==
  IF n = 0 THEN {<<>>}
  ELSE LET shorter == Names(n - 1)
       IN shorter \cup { Append(s, c) : s \in { x \in shorter : Len(x) = n - 1 }, c \in NameChars }

InitValidate ==
  /\ files = InitFiles
  /\ InitServer
  /\ LET Letters(n) == [i \in 1..n |-> "a"]
         \* names around the length limit, some of them with a dangerous character
         LongNames ==
           { Letters(n) : n \in (MAX_NAME_LENGTH - 1)..(MAX_NAME_LENGTH + 2) }
             \cup { Letters(n) \o <<c>> :
                      n \in (MAX_NAME_LENGTH - 2)..MAX_NAME_LENGTH, c \in NameChars }
     IN \E name \in Names(MaxNameLen) \cup LongNames :
          pure = [f |-> "validate_project_name", root |-> <<>>, path |-> name, res |-> -1]

ApplyValidate ==
  /\ pure.f = "validate_project_name"
  /\ pure.res = -1
  /\ pure' = [pure EXCEPT !.res = IF validate_project_name(pure.path) THEN 1 ELSE 0]
  /\ UNCHANGED webvars
  /\ UNCHANGED storevars

SpecValidate == InitValidate /\ [][ApplyValidate]_vars

\* ------------------------------------------------------------------------
\* The vector-store server: the project-scoped endpoints
\* ------------------------------------------------------------------------
\* what an endpoint's code does before it asks for the project's client: it
\* goes on, or an exception is raised inside the try block
GoesOn == [raised |-> FALSE, exc |-> [type |-> "none", arg |-> NoStoreResp]]
Raises(type, arg) == [raised |-> TRUE, exc |-> [type |-> type, arg |-> arg]]

\* not x, for a field read with data.get: absent, null and empty are falsy
Falsy(has, value) == ~has \/ Len(value) = 0

BodyEndpoints ==
  {"create_collection", "add_to_collection", "query_collection", "delete_from_collection"}

\* the statements of an endpoint between try: and get_or_create_project_client:
\* data = await request.json() raises for a body that is no JSON, data.get
\* for a JSON value that is no object
BeforeClient(endpoint, data) ==
  IF endpoint \notin BodyEndpoints THEN GoesOn
  ELSE IF data.kind = "invalid" THEN Raises("JSONDecodeError", NoStoreResp)
  ELSE IF data.kind = "list" THEN Raises("AttributeError", NoStoreResp)
  ELSE IF endpoint = "create_collection" /\ Falsy(data.has_name, data.name)
  THEN Raises("HTTPException", HTTPException(400, "Collection name is required"))
  ELSE IF endpoint = "delete_from_collection" /\ Falsy(data.has_ids, data.ids)
  THEN Raises("HTTPException", HTTPException(400, "Document IDs are required"))
  ELSE GoesOn

\* except Exception as e: raise HTTPException(status_code=500, detail=str(e));
\* HTTPException is an Exception, so the handler catches it as well, and
\* str(e) is then "<status_code>: <detail>"
Caught(endpoint, exc) ==
  LET str == IF exc.type # "HTTPException" THEN exc.type
             ELSE IF exc.arg = HTTPException(400, "Collection name is required")
             THEN "400: Collection name is required"
             ELSE IF exc.arg = HTTPException(400, "Document IDs are required")
             THEN "400: Document IDs are required"
             ELSE "HTTPException"
  IN IF endpoint = "get_collection" THEN HTTPException(404, "Collection not found")
     ELSE HTTPException(500, str)

\* the calls an endpoint makes on the project's client and their outcomes:
\* the collections afterwards, the answer, and the calls made
Op(cols, answer, calls) == [cols |-> cols, resp |-> answer, calls |-> calls]

ClientOp(r, data, cols) ==
  LET e == r.endpoint
      c == r.collection_name
      Ok == HTTPException(200, "ok")
      fails(calls, msg) == Op(cols, Caught(e, [type |-> msg, arg |-> NoStoreResp]), calls)
  IN CASE e = "list_collections" -> {Op(cols, Ok, <<"list_collections">>)}
       [] e = "create_collection" ->
            IF data.get_or_create
            THEN {Op(cols \cup {data.name}, Ok, <<"get_or_create_collection">>)}
            ELSE IF data.name \in cols
            THEN {fails(<<"create_collection">>, "already exists")}
            ELSE {Op(cols \cup {data.name}, Ok, <<"create_collection">>)}
       [] e = "get_collection" ->
            IF c \in cols THEN {Op(cols, Ok, <<"get_collection">>)}
            ELSE {fails(<<"get_collection">>, "does not exist")}
       [] e = "delete_collection" ->
            IF c \in cols THEN {Op(cols \ {c}, Ok, <<"delete_collection">>)}
            ELSE {fails(<<"delete_collection">>, "does not exist")}
       [] OTHER ->
            IF c \notin cols THEN {fails(<<"get_collection">>, "does not exist")}
            ELSE {Op(cols, Ok, <<"get_collection", e>>),
                  fails(<<"get_collection", e>>, "invalid arguments")}

\* faulty variant: a client is made for every request
NeedsClientAlways(pcs, project_name) == TRUE

\* if project_name not in project_clients
NeedsClient(pcs, project_name) == project_name \notin DOMAIN pcs

\* get_or_create_project_client(project_name): get_project_path makes the
\* directory, a PersistentClient is constructed on it and kept
get_or_create_project_client(project_name) ==
  IF NeedsClient(project_clients, project_name)
  THEN /\ project_paths' = project_paths \cup {project_name}
       /\ clients' = Append(clients, project_name)
       /\ project_clients' = Put(project_clients, project_name, Len(clients) + 1)
  ELSE UNCHANGED <<project_paths, clients, project_clients>>

\* the coroutine of t ends with an answer
Reply(t, r, data, rsp, calls) ==
  /\ task' = [task EXCEPT ![t] = IdleTask]
  /\ answered' = [req |-> r, data |-> data, resp |-> rsp, calls |-> calls]

\* the try block of an endpoint, once the body (if any) has been received
Handle(t, r, data) ==
  LET early == BeforeClient(r.endpoint, data)
  IN IF early.raised
     THEN /\ Reply(t, r, data, Caught(r.endpoint, early.exc), <<>>)
          /\ UNCHANGED <<project_clients, project_paths, clients, collections>>
     ELSE /\ get_or_create_project_client(r.project_name)
          /\ \E out \in ClientOp(r, data, IF r.project_name \in DOMAIN collections
                                           THEN collections[r.project_name] ELSE {}) :
               /\ collections' = Put(collections, r.project_name, out.cols)
               /\ Reply(t, r, data, out.resp, out.calls)

\* faulty variant: no name is turned away
RejectsNone(project_name) == FALSE

\* if not validate_project_name(project_name)
Rejects(project_name) == ~validate_project_name(project_name)

\* a request for an endpoint arrives: the name is validated, and an endpoint
\* that reads a body waits for it (await request.json())
Endpoint(t, endpoint, names) ==
  /\ task[t].pc = "idle"
  /\ \E project_name \in names :
       LET r == StoreReq(endpoint, project_name, "c")
       IN IF Rejects(project_name)
          THEN /\ Reply(t, r, NoData, HTTPException(400, "Invalid project name"), <<>>)
               /\ UNCHANGED <<project_clients, project_paths, clients, collections>>
          ELSE IF endpoint \in BodyEndpoints
          THEN /\ task' = [task EXCEPT ![t] = [pc |-> "json", req |-> r]]
               /\ UNCHANGED <<project_clients, project_paths, clients, collections, answered>>
          ELSE Handle(t, r, NoData)
  /\ UNCHANGED webvars
  /\ UNCHANGED pure

\* the bodies a client may send to an endpoint
Bodies(endpoint) ==
  {Data("invalid", FALSE, "", FALSE, FALSE, <<>>), Data("list", FALSE, "", FALSE, FALSE, <<>>)}
    \cup (IF endpoint = "create_collection"
          THEN { Data("dict", FALSE, "", FALSE, FALSE, <<>>),
                 Data("dict", TRUE, "", FALSE, FALSE, <<>>),
                 Data("dict", TRUE, "c", FALSE, FALSE, <<>>),
                 Data("dict", TRUE, "c", TRUE, FALSE, <<>>) }
          ELSE { Data("dict", FALSE, "", FALSE, FALSE, <<>>),
                 Data("dict", FALSE, "", FALSE, TRUE, <<>>),
                 Data("dict", FALSE, "", FALSE, TRUE, <<"d">>) })

\* the body has arrived and the coroutine goes on
ReceiveJson(t) ==
  /\ task[t].pc = "json"
  /\ \E data \in Bodies(task[t].req.endpoint) : Handle(t, task[t].req, data)
  /\ UNCHANGED webvars
  /\ UNCHANGED pure

list_collections(t, names) == Endpoint(t, "list_collections", names)
create_collection(t, names) == Endpoint(t, "create_collection", names)
get_collection(t, names) == Endpoint(t, "get_collection", names)
add_to_collection(t, names) == Endpoint(t, "add_to_collection", names)
query_collection(t, names) == Endpoint(t, "query_collection", names)
delete_collection(t, names) == Endpoint(t, "delete_collection", names)
get_from_collection(t, names) == Endpoint(t, "get_from_collection", names)
delete_from_collection(t, names) == Endpoint(t, "delete_from_collection", names)

\* ------------------------------------------------------------------------
\* The vector store under requests for valid and invalid project names
\* ------------------------------------------------------------------------
\* names the router hands to an endpoint: a path parameter is never empty
\* and holds no '/'
StoreNames == { P_NAME, Q_NAME, DOTDOT, BS_NAME }

NextStore ==
  \/ \E t \in Requests : list_collections(t, StoreNames)
  \/ \E t \in Requests : create_collection(t, StoreNames)
  \/ \E t \in Requests : get_collection(t, StoreNames)
  \/ \E t \in Requests : add_to_collection(t, StoreNames)
  \/ \E t \in Requests : query_collection(t, StoreNames)
  \/ \E t \in Requests : delete_collection(t, StoreNames)
  \/ \E t \in Requests : get_from_collection(t, StoreNames)
  \/ \E t \in Requests : delete_from_collection(t, StoreNames)
  \/ \E t \in Requests : ReceiveJson(t)

SpecStore == Init /\ [][NextStore]_vars

\* ------------------------------------------------------------------------
\* Properties
\* ------------------------------------------------------------------------
\* C1: when load_module is called for a key with the mtime that the previous
\* call for that key read, and that call returned a module, the call returns
\* that same module object, imports nothing and leaves the cache as it is.
CacheHitSameModule ==
  [][\A t \in Requests :
       (pc[t] = "lock" /\ pc'[t] # "lock"
        /\ lastCall[Key(req[t])].module # 0
        /\ lastCall[Key(req[t])].mtime = mtime[t])
       => /\ pc'[t] = "invoke"
          /\ mod'[t] = lastCall[Key(req[t])].module
          /\ heap' = heap
          /\ loaded_modules' = loaded_modules]_vars

\* two requests hold the same module object: one loaded it, the other hit
CacheHitWitness ==
  \E t, u \in Requests :
    /\ t # u
    /\ pc[t] = "invoke" /\ pc[u] = "invoke"
    /\ mod[t] # 0 /\ mod[t] = mod[u]
    /\ Len(heap) = 1

\* the module a request got from load_module reflects the source the request
\* found on arrival, and is not the stale module the cache held then
FreshModule(t) ==
  /\ heap'[mod'[t]].ver >= start[t].ver
  /\ mod'[t] # start[t].cached
  /\ loaded_modules'[Key(req[t])].module = mod'[t]
  /\ loaded_modules'[Key(req[t])].mtime = mtime[t]

\* a request that arrived when the cached entry's mtime differed from the
\* file's, and read an mtime other than the cached one, returns from load_module
ReturnsAfterChange(t) ==
  /\ pc[t] \in {"lock", "install"} /\ pc'[t] = "invoke"
  /\ start[t].cached # 0
  /\ mtime[t] # heap[start[t].cached].mtime

\* the entry point a dispatch invokes belongs to the module load_module returned
InvokesLoaded(t) ==
  (pc[t] = "invoke" /\ call'[t] # <<>>) => call'[t][1].module = mod[t]

InWindow(t) == pc[t] \in {"lock", "import", "install"}

\* C3: no other request on the key reads the timestamp or installs an entry
\* between a request's timestamp read and its install or return.
AtomicFreshnessCheck ==
  \A t, u \in Requests :
    (t # u /\ InWindow(t) /\ Key(req[t]) = Key(req[u])) => ~InWindow(u)

\* no source version is imported into two module objects, and the requests
\* that hold a module for a key hold the same one
SingleImport ==
  /\ \A i, j \in 1..Len(heap) : heap[i].ver = heap[j].ver => i = j
  /\ \A t, u \in Requests :
       (pc[t] = "invoke" /\ pc[u] = "invoke" /\ Key(req[t]) = Key(req[u])) => mod[t] = mod[u]

\* request t leaves the lock section while u, which read the same mtime for
\* the same key, waits for the lock
LeavesBefore(t, u) ==
  /\ t # u
  /\ registry_lock = t /\ registry_lock' # t
  /\ pc[u] = "lock" /\ Key(req[u]) = Key(req[t]) /\ mtime[u] = mtime[t]

\* the entry u will find is the module t imported, under the mtime both read
FindsInstalled(t, u) ==
  /\ HasEntry(loaded_modules', Key(req[u]))
  /\ loaded_modules'[Key(req[u])].mtime = mtime[u]
  /\ loaded_modules'[Key(req[u])].module = mod'[t]
  /\ mod'[t] # 0

\* C4 as stated: of the requests that race on a key and all read the same
\* mtime, exactly one imports the module, and every other one finds the entry
\* the first installed and returns that same object.
NoDoubleLoad ==
  /\ []SingleImport
  /\ [][\A t, u \in Requests : LeavesBefore(t, u) => FindsInstalled(t, u)]_vars

\* C4, amended: the same, provided the first request's import succeeds (a
\* failed import installs nothing, and the next request imports again).
NoDoubleLoadOnSuccess ==
  /\ []SingleImport
  /\ [][\A t, u \in Requests :
         (LeavesBefore(t, u) /\ pc[t] = "install") => FindsInstalled(t, u)]_vars

\* two racing requests hold the module that replaced a stale entry
NoDoubleLoadWitness ==
  \E t, u \in Requests :
    /\ t # u
    /\ pc[t] = "invoke" /\ pc[u] = "invoke"
    /\ mod[t] = 2 /\ mod[u] = 2

\* C5: at most one request is inside the import-and-install section, and it
\* holds registry_lock.
AtMostOneInstaller ==
  /\ Cardinality({t \in Requests : pc[t] \in {"import", "install"}}) <= 1
  /\ \A t \in Requests : pc[t] \in {"import", "install"} => registry_lock = t

\* one request installs while another waits for the lock
InstallerWitness ==
  \E t, u \in Requests : pc[t] = "install" /\ pc[u] = "lock"

\* C6: load_module makes no file-system call on the handler path before the
\* Path Guard has accepted it.
GuardBeforeFilesystem ==
  \A t \in Requests :
    req[t].route = "dynamic_api" =>
      \A i \in 1..Len(fslog[t]) : fslog[t][i].guarded

\* does string s contain string p
Contains(s, p) == \E i \in 1..(Len(s) - Len(p) + 1) : SubSeq(s, i, i + Len(p) - 1) = p

\* a project name the Path Guard is to reject
Traversing(project) ==
  Contains(project, DOTDOT) \/ Contains(project, <<SEP>>) \/ Contains(project, <<"\\">>)

\* C7: a request whose project name contains '..', '/' or '\' makes no
\* file-system call, is answered 403 and leaves the cache alone (a preflight
\* request, answered before any path is built, is left aside).
TraversalProjectRejected ==
  \A t \in Requests :
    (Traversing(req[t].project) /\ ~IsPreflight(req[t].method)) =>
      /\ fslog[t] = <<>>
      /\ (pc[t] = "idle" => resp[t].status = 403)
      /\ \A k \in DOMAIN loaded_modules : k[1] # req[t].project

\* is sequence a a prefix of sequence b
IsPrefix(a, b) == Len(a) <= Len(b) /\ SubSeq(b, 1, Len(a)) = a

\* C8: _ensure_in_dir accepts exactly when the components of the absolute
\* root are a prefix of the components of the absolute path, and it rejects
\* with 403 and nothing else.
EnsureInDirContainment ==
  (pure.f = "_ensure_in_dir" /\ pure.res # -1) =>
    /\ pure.res \in {0, 403}
    /\ (pure.res = 0) <=> IsPrefix(PathComps(abspath(pure.root)), PathComps(abspath(pure.path)))

\* a sibling whose name starts with the root's last component is rejected
SiblingRejected ==
  /\ pure.res = 403
  /\ StartsWith(abspath(pure.path), abspath(pure.root))

\* C9: an OPTIONS request is answered 204 with an empty body in one step that
\* loads nothing, leaves the cache alone and invokes no entry point.
PreflightBypass ==
  [][\A t \in Requests :
       req'[t].method = "OPTIONS"
       => /\ pc'[t] = "idle"
          /\ resp'[t] = Response(204, "empty", NoBody, "none")
          /\ call'[t] = <<>>
          /\ fslog'[t] = <<>>
          /\ heap' = heap
          /\ loaded_modules' = loaded_modules]_vars

\* OPTIONS was answered for a loaded module that defines options and a handle
\* listing OPTIONS
PreflightWitness ==
  \E t \in Requests :
    /\ req[t].method = "OPTIONS"
    /\ resp[t].status = 204
    /\ HasEntry(loaded_modules, Key(req[t]))
    /\ heap[loaded_modules[Key(req[t])].module].src = SrcOptions

\* C10: a callable attribute named like the lower-cased verb is the entry
\* point invoked, with no argument if it declares no parameter and with the
\* request otherwise, whatever handle and SUPPORTED_METHODS say.
VerbFunctionInvoked ==
  [][\A t \in Requests :
       (pc[t] = "invoke" /\ pc'[t] = "idle"
        /\ callable(heap[mod[t]].src.attrs[Lower(req[t].method)]))
       => LET func == heap[mod[t]].src.attrs[Lower(req[t].method)]
          IN call'[t] = <<[module |-> mod[t], name |-> Lower(req[t].method),
                           nargs |-> IF func.argcount = 0 /\ ~func.varargs THEN 0 ELSE 1]>>]_vars

\* request t's dispatch step: the entry point is selected and run
Dispatches(t) == pc[t] = "invoke" /\ pc'[t] = "idle"

\* the attribute of the loaded module named like the lower-cased verb, and handle
VerbAttr(t) == heap[mod[t]].src.attrs[Lower(req[t].method)]
HandleAttr(t) == heap[mod[t]].src.attrs["handle"]

\* the one invocation of entry point name by request t
CallOf(t, name, nargs) == <<[module |-> mod[t], name |-> name, nargs |-> nargs]>>

\* C11: without a verb function but with a callable handle, handle is invoked
\* with the request exactly when the verb is in SUPPORTED_METHODS (GET alone
\* when the module declares none), and any other verb is answered 405 with
\* no invocation; the example handler answers GET with the animals, passes
\* POST to handle and answers DELETE with 405.
HandleSelected ==
  [][\A t \in Requests :
       (Dispatches(t) /\ ~callable(VerbAttr(t)) /\ callable(HandleAttr(t)))
       => LET src == heap[mod[t]].src
              allowed == IF src.has_supported THEN src.supported ELSE {"GET"}
          IN /\ IF req[t].method \in allowed
                THEN call'[t] = CallOf(t, "handle", 1)
                ELSE call'[t] = <<>> /\ resp'[t].status = 405
             /\ src = SrcExample =>
                  /\ req[t].method = "GET" =>
                       (resp'[t].status = 200 /\ resp'[t].kind = "json"
                        /\ resp'[t].body.text = "animals")
                  /\ req[t].method = "POST" =>
                       (call'[t] = CallOf(t, "handle", 1) /\ resp'[t].body.text = "created")
                  /\ req[t].method = "DELETE" => resp'[t].status = 405]_vars

\* DELETE on the example handler was answered 405 without a call
HandleWitness ==
  \E t \in Requests :
    /\ pc[t] = "idle" /\ req[t].method = "DELETE" /\ resp[t].status = 405
    /\ call[t] = <<>>
    /\ HasEntry(loaded_modules, Key(req[t]))
    /\ heap[loaded_modules[Key(req[t])].module].src = SrcExample

\* C12: a module with neither a callable verb attribute nor a callable handle
\* is answered 500, nothing of it is invoked, and the thread and the lock are
\* free for later requests.
MisconfiguredHandler ==
  [][\A t \in Requests :
       (Dispatches(t) /\ ~callable(VerbAttr(t)) /\ ~callable(HandleAttr(t)))
       => /\ resp'[t].status = 500
          /\ call'[t] = <<>>
          /\ registry_lock' = 0
          /\ loaded_modules' = loaded_modules
          /\ heap' = heap]_vars

\* GET on a module that defines only post(request) was answered 500
MisconfiguredWitness ==
  \E t \in Requests :
    /\ pc[t] = "idle" /\ req[t].method = "GET" /\ resp[t].status = 500
    /\ call[t] = <<>>
    /\ HasEntry(loaded_modules, Key(req[t]))
    /\ heap[loaded_modules[Key(req[t])].module].src = SrcPostOnly

\* C13: a dispatch invokes at most one entry point once; if the call raises,
\* the answer is the JSON error body with status 500, and a failed verb
\* function is not followed by a call of handle.
AtMostOnce ==
  /\ [](\A t \in Requests : Len(call[t]) <= 1)
  /\ [][\A t \in Requests :
         (Dispatches(t) /\ call'[t] # <<>>)
         => LET e == call'[t][1]
                out == Call(heap[mod[t]].src.attrs[e.name], e.nargs, req[t].method)
            IN /\ callable(VerbAttr(t)) => e.name = Lower(req[t].method)
               /\ out.raised =>
                    (resp'[t].status = 500 /\ resp'[t].kind = "json"
                     /\ resp'[t].body.tag = "error" /\ resp'[t].body.text = out.msg)]_vars

\* get raised in a module that also has a handle: one call, JSON error
AtMostOnceWitness ==
  \E t \in Requests :
    /\ pc[t] = "idle" /\ Len(call[t]) = 1 /\ call[t][1].name = "get"
    /\ resp[t] = JsonError("boom")
    /\ callable(heap[call[t][1].module].src.attrs["handle"])

\* C14: every error answer of a dispatch is a JSON body {"error": message}
\* with the error's status.
ErrorsAreJson ==
  \A t \in Requests :
    (req[t].route = "dynamic_api" /\ pc[t] = "idle" /\ resp[t].status >= 400)
    => (resp[t].kind = "json" /\ resp[t].body.tag = "error")

\* C15: a mapping becomes a JSON response with status 200, a str or bytes
\* value is the body as it is, a tuple keeps its status and headers, and a
\* built Response is returned unchanged.
ReturnValueNormalized ==
  [][\A t \in Requests :
       (Dispatches(t) /\ call'[t] # <<>>)
       => LET e == call'[t][1]
              out == Call(heap[mod[t]].src.attrs[e.name], e.nargs, req[t].method)
              v == out.val
              r == resp'[t]
          IN ~out.raised =>
               /\ v.type = "dict" =>
                    (r.status = 200 /\ r.kind = "json" /\ r.body.text = v.body)
               /\ v.type \in {"str", "bytes"} =>
                    (r.kind = "raw" /\ r.body.tag = v.type /\ r.body.text = v.body)
               /\ v.type = "tuple2" => (r.status = v.status /\ r.body.text = v.body)
               /\ v.type = "tuple3" =>
                    (r.status = v.status /\ r.headers = v.headers /\ r.body.text = v.body)
               /\ v.type = "Response" =>
                    (r.status = v.status /\ r.headers = v.headers /\ r.kind = "raw"
                     /\ r.body.text = v.body)]_vars

\* a (body, status, headers) tuple was answered with its status and headers
NormalizedWitness ==
  \E t \in Requests :
    /\ pc[t] = "idle" /\ Len(call[t]) = 1 /\ call[t][1].name = "delete"
    /\ resp[t].status = 202 /\ resp[t].headers = "X-A"

\* C16: a key that has an entry in loaded_modules has one in every later
\* state, also once its file is deleted; the set of cached keys only grows.
NoEviction ==
  [][\A k \in DOMAIN loaded_modules : k \in DOMAIN loaded_modules']_vars

\* a request was answered 404 for a deleted file whose entry is still
\* cached beside the other project's
NoEvictionWitness ==
  \E t \in Requests :
    /\ pc[t] = "idle" /\ resp[t].status = 404
    /\ HasEntry(loaded_modules, Key(req[t]))
    /\ ~files[KeyFile[Key(req[t])]].exists
    /\ Cardinality(DOMAIN loaded_modules) = 2

\* C17: a reload creates a new module object and puts it in the key's entry
\* in one step; no module object is ever modified, and a request that holds
\* a module keeps and runs that module whatever is reloaded meanwhile.
SupersedeNeverMutate ==
  [][/\ Len(heap') >= Len(heap)
     /\ \A i \in 1..Len(heap) : heap'[i] = heap[i]
     /\ \A t \in Requests :
          /\ (pc[t] = "invoke" /\ pc'[t] = "invoke") => mod'[t] = mod[t]
          /\ (Dispatches(t) /\ call'[t] # <<>>) => call'[t][1].module = mod[t]
          /\ (pc[t] = "install" /\ pc'[t] = "invoke") =>
               /\ loaded_modules'[Key(req[t])].module = mod[t]
               /\ \A k \in DOMAIN loaded_modules : loaded_modules[k].module # mod[t]
               /\ \A k \in DOMAIN loaded_modules :
                    k # Key(req[t]) => loaded_modules'[k] = loaded_modules[k]]_vars

\* a request holds the old module while the entry already has the new one
SupersedeWitness ==
  \E t \in Requests :
    /\ pc[t] = "invoke"
    /\ HasEntry(loaded_modules, Key(req[t]))
    /\ loaded_modules[Key(req[t])].module # mod[t]
    /\ heap[loaded_modules[Key(req[t])].module].ver > heap[mod[t]].ver

\* the answer of the handler that stays as it is
NormalAnswer == Response(200, "json", Body("dict", "animals", <<>>, {}), "none")

\* C18: when an entry point raises, no cache entry changes, the failing
\* request does not hold registry_lock, no other request is disturbed, and
\* the dispatches to the other project's handler end with its normal answer.
FailureIsolation ==
  /\ [](\A u \in Requests :
          (req[u].project = Q_NAME /\ req[u].route = "dynamic_api" /\ pc[u] = "idle")
          => resp[u] = NormalAnswer)
  /\ [][\A t \in Requests :
         (Dispatches(t) /\ resp'[t].status = 500)
         => /\ loaded_modules' = loaded_modules
            /\ heap' = heap
            /\ registry_lock' = registry_lock /\ registry_lock' # t
            /\ \A u \in Requests \ {t} :
                 /\ pc'[u] = pc[u] /\ mod'[u] = mod[u]
                 /\ resp'[u] = resp[u] /\ call'[u] = call[u]]_vars

\* one request got the failing handler's error, another the other
\* project's normal answer
IsolationWitness ==
  \E t, u \in Requests :
    /\ pc[t] = "idle" /\ req[t].project = P_NAME /\ resp[t] = JsonError("boom")
    /\ pc[u] = "idle" /\ req[u].project = Q_NAME /\ resp[u] = NormalAnswer

\* C19: registry_lock is held only while a module is imported and installed,
\* never while an entry point runs, so a handler that never returns keeps
\* no request from looking up or loading a module.
LockReleasedBeforeInvoke ==
  \A t \in Requests : registry_lock = t => pc[t] \in {"import", "install"}

\* a module is imported while another request runs its handler
ConcurrentExecutionWitness ==
  \E t, u \in Requests :
    pc[t] = "invoke" /\ pc[u] = "import" /\ registry_lock = u

\* C20: the module list is exactly the names of the .py files of the api
\* directory that are neither hidden nor underscore-prefixed.
ListingExcludesHidden ==
  \A t \in Requests :
    (req[t].route = "list_api_modules" /\ pc[t] = "idle" /\ isdir(api_dir(req[t].project)))
    => resp[t].body.names =
         { StripExt(fn) : fn \in { e \in listdir(files, api_dir(req[t].project)) :
                                    /\ EndsWith(e, PY_EXT)
                                    /\ ~StartsWith(e, <<DOT>>)
                                    /\ ~StartsWith(e, UNDERSCORE) } }

\* the root a static route serves from: the project root, or its web directory
StaticRoot(r) ==
  IF r.route = "serve_file" THEN project_root(r.project) ELSE web_root(r.project)

\* does the absolute form of path lie in the directory root
Inside(root, path) == IsPrefix(PathComps(abspath(root)), PathComps(abspath(path)))

\* C21: a static-file request whose joined path lies outside the project
\* root (the web directory for /web/) is answered 403 before any file-system
\* call, and every file-system call, listing and file of a static route is
\* inside that root.
StaticGuard ==
  \A t \in Requests :
    req[t].route \in {"serve_file", "web_serve_file"} =>
      LET root == StaticRoot(req[t])
          full == join(root, req[t].name)
      IN /\ ~Inside(root, full) => (resp[t].status = 403 /\ fslog[t] = <<>>)
         /\ \A i \in 1..Len(fslog[t]) :
              fslog[t][i].target = NoPath \/ Inside(root, fslog[t][i].target)
         /\ resp[t].body.tag \in {"file", "listing"} => Inside(root, resp[t].body.ref)

\* the directory pp beside project p, asked for as ../pp, was answered 403
StaticGuardWitness ==
  \E t \in Requests :
    /\ req[t].route = "serve_file" /\ req[t].project = P_NAME
    /\ req[t].name = <<".", ".", "/", "p", "p">>
    /\ resp[t].status = 403 /\ fslog[t] = <<>>

\* C22: a request for a project whose root directory does not exist is
\* answered 404, invokes no handler and leaves the cache alone, whether it
\* is a dispatch, the handler listing or the project index (a preflight
\* request, answered before any path is built, is left aside).
MissingProjectNotFound ==
  \A t \in Requests :
    (/\ req[t].route \in {"dynamic_api", "list_api_modules", "serve_index"}
     /\ ~IsPreflight(req[t].method)
     /\ ~isdir(project_root(req[t].project))
     /\ pc[t] = "idle")
    => /\ resp[t].status = 404
       /\ call[t] = <<>>
       /\ \A k \in DOMAIN loaded_modules : k[1] # req[t].project

\* C23: load_module decides by equality of the mtime it read and the stored
\* one and by nothing else: with an equal mtime it returns the cached module
\* and loads nothing, whatever the file contains now; with any other mtime,
\* newer or older, or without an entry, it goes on to import, and the module
\* it returns is then a new one, installed under the mtime it read.
StalenessWindow ==
  [][\A t \in Requests :
       LET k == Key(req[t])
           same == HasEntry(loaded_modules, k) /\ loaded_modules[k].mtime = mtime[t]
       IN /\ (pc[t] = "lock" /\ pc'[t] # "lock") =>
               IF same
               THEN /\ pc'[t] = "invoke"
                    /\ mod'[t] = loaded_modules[k].module
                    /\ heap' = heap
                    /\ loaded_modules' = loaded_modules
               ELSE pc'[t] = "import"
          /\ (pc[t] = "install" /\ pc'[t] = "invoke") =>
               /\ mod[t] = Len(heap)
               /\ \A j \in DOMAIN loaded_modules : loaded_modules[j].module # mod[t]
               /\ loaded_modules'[k] = [module |-> mod[t], mtime |-> mtime[t],
                                        path |-> HandlerPath[k]]]_vars

\* a request that arrived after the file was rewritten under its old mtime
\* holds the module of the older source
StalenessWitness ==
  \E t \in Requests :
    /\ pc[t] = "invoke"
    /\ mtimes = "repeating"
    /\ heap[mod[t]].ver < start[t].ver
    /\ files[KeyFile[Key(req[t])]].mtime = heap[mod[t]].mtime
    /\ Len(heap) = 1

\* the characters that alone make a name invalid
BadChars == {"/", "\\", ":", "*", "?", "\"", "<", ">", "|"}

\* C24: validate_project_name returns true exactly for the names that are
\* not empty, have at most 50 characters, hold none of the characters
\* / \ : * ? " < > | and no two dots in a row; 50 letters are accepted,
\* 51 are rejected.
ValidateProjectName ==
  (pure.f = "validate_project_name" /\ pure.res # -1) =>
    LET name == pure.path
    IN /\ pure.res \in {0, 1}
       /\ (pure.res = 1) <=>
            /\ Len(name) >= 1
            /\ Len(name) <= 50
            /\ \A i \in 1..Len(name) : name[i] \notin BadChars
            /\ \A i \in 1..(Len(name) - 1) : ~(name[i] = "." /\ name[i + 1] = ".")
       /\ Len(name) = 51 => pure.res = 0
       /\ (Len(name) = 50 /\ \A i \in 1..50 : name[i] = "a") => pure.res = 1

\* a name of 50 letters was accepted
ValidateWitness ==
  /\ pure.f = "validate_project_name"
  /\ pure.res = 1
  /\ Len(pure.path) = 50

\* the project-scoped endpoints of the vector store
StoreEndpoints ==
  {"list_collections", "create_collection", "get_collection", "add_to_collection",
   "query_collection", "delete_collection", "get_from_collection", "delete_from_collection"}

\* C25: every project-scoped endpoint of the vector store validates the
\* project name first: a request with an invalid name is answered 400 in a
\* step that makes no directory, constructs and keeps no client, calls no
\* client and changes no collection; no coroutine goes on with an invalid
\* name, and no directory or client exists for a name with '..', '/' or a
\* backslash.
ValidateFirst ==
  /\ [](/\ ~validate_project_name(answered.req.project_name) /\ answered # NoAnswer
           => (answered.resp = HTTPException(400, "Invalid project name")
               /\ answered.calls = <<>>)
        /\ \A t \in Requests :
             task[t].pc # "idle" => validate_project_name(task[t].req.project_name)
        /\ \A n \in project_paths \cup DOMAIN project_clients \cup DOMAIN collections :
             ~Traversing(n))
  /\ [][(answered' # answered /\ ~validate_project_name(answered'.req.project_name))
        => /\ answered'.req.endpoint \in StoreEndpoints
           /\ project_paths' = project_paths
           /\ clients' = clients
           /\ project_clients' = project_clients
           /\ collections' = collections
           /\ task' = task]_vars

\* a request to create a collection in project '..' was answered 400 while
\* another project has its client and its directory
ValidateFirstWitness ==
  /\ answered.req.endpoint = "create_collection"
  /\ answered.req.project_name = DOTDOT
  /\ answered.resp.status = 400
  /\ project_paths = {P_NAME}
  /\ DOMAIN project_clients = {P_NAME}

\* the body is a JSON object without the field the endpoint requires
LacksField(a) ==
  /\ a.data.kind = "dict"
  /\ \/ a.req.endpoint = "create_collection" /\ Falsy(a.data.has_name, a.data.name)
     \/ a.req.endpoint = "delete_from_collection" /\ Falsy(a.data.has_ids, a.data.ids)

\* C29: create_collection without a collection name and
\* delete_from_collection without ids are answered 400 with their message,
\* and the ChromaDB client is not reached.
RequiredFields ==
  (validate_project_name(answered.req.project_name) /\ LacksField(answered))
  => /\ answered.resp.status = 400
     /\ answered.resp.detail =
          (IF answered.req.endpoint = "create_collection"
           THEN "Collection name is required" ELSE "Document IDs are required")
     /\ answered.calls = <<>>

\* C30: project_clients holds one client per project name, made once: an
\* entry is never removed or replaced, no second client is constructed for
\* a project, every later request for the project uses the client made
\* first, and only valid project names are keys.
ClientCache ==
  /\ [](/\ \A n \in DOMAIN project_clients :
             /\ validate_project_name(n)
             /\ project_clients[n] \in 1..Len(clients)
             /\ clients[project_clients[n]] = n
        /\ \A i, j \in 1..Len(clients) : clients[i] = clients[j] => i = j)
  /\ [][\A n \in DOMAIN project_clients :
          n \in DOMAIN project_clients' /\ project_clients'[n] = project_clients[n]]_vars

\* a request for project p was served through the client made first, after
\* the client of project q was made
ClientCacheWitness ==
  /\ Len(clients) = 2
  /\ project_clients[P_NAME] = 1
  /\ project_clients[Q_NAME] = 2
  /\ answered.req.project_name = P_NAME
  /\ answered.req.endpoint = "get_collection"
  /\ answered.resp.status = 200

\* C26: while every write gives the file a newer mtime, the mtime stored in
\* a key's entry never decreases, and an entry labelled with the file's
\* current mtime is not replaced by one labelled with an older mtime.
InOrderInstall ==
  [][mtimes' = "advancing" =>
       \A k \in DOMAIN loaded_modules :
         /\ loaded_modules'[k].mtime >= loaded_modules[k].mtime
         /\ (OnDisk(files, k) /\ loaded_modules[k].mtime = files[KeyFile[k]].mtime)
            => loaded_modules'[k].mtime = loaded_modules[k].mtime]_vars

LoadFails(t) == pc[t] \in {"isfile", "guard", "lock", "import"} /\ pc'[t] = "idle"

\* C28: a load that fails (missing file, forbidden path, import that raises)
\* leaves loaded_modules and every module as they were, leaves registry_lock
\* free of the request, invokes no entry point and is answered with an
\* error; the next request that reads the same mtime for the key imports
\* again.
FailedLoadKeepsCache ==
  [][\A t \in Requests :
       /\ LoadFails(t) =>
            /\ loaded_modules' = loaded_modules
            /\ heap' = heap
            /\ registry_lock' = 0 \/ (registry_lock' = registry_lock /\ registry_lock # t)
            /\ call'[t] = <<>>
            /\ resp'[t].status \in {403, 404, 500}
       /\ (pc[t] = "lock" /\ pc'[t] # "lock"
           /\ lastCall[Key(req[t])] = [mtime |-> mtime[t], module |-> 0])
          => pc'[t] = "import"]_vars

\* the rewritten handler failed to import: the request was answered 500, the
\* entry of the earlier version is still cached and the lock is free
FailedLoadWitness ==
  \E t \in Requests :
    /\ pc[t] = "idle" /\ resp[t] = Fault("import failed")
    /\ registry_lock = 0
    /\ HasEntry(loaded_modules, Key(req[t]))
    /\ heap[loaded_modules[Key(req[t])].module].ver < files[KeyFile[Key(req[t])]].ver
    /\ lastCall[Key(req[t])].module = 0

====
